---- MODULE Spec2Model ----
(***************************************************************************)
(* Stream session coordinator of the live-streaming server:                *)
(*   - WebSocketServer  (src/services/webSocketServer.js): socket          *)
(*     authentication, room join/leave, viewer counts, chat;               *)
(*   - RTMPServer       (src/routes/streamRoutes.js, lines 58-736): the    *)
(*     prePublish / postPublish / donePublish / doneConnect listeners,     *)
(*     endStream, stop and the authenticatePublish hook;                   *)
(*   - RecordingService (src/services/recordingService.js, lines 1-185);   *)
(*   - the Stream schema (src/services/recordingService.js, 187-365).      *)
(* Every `await` of a handler is a position of that handler: the steps of  *)
(* other handlers may run between two positions.                           *)
(***************************************************************************)
EXTENDS Integers, Sequences, FiniteSets, TLC

(***************************************************************************)
(* Bounds of the model.                                                    *)
(***************************************************************************)
MaxTextLen == 2        \* longest chat text, in characters
MaxTime == 1           \* number of clock advances
MaxRecordings == 2     \* number of recordings started
TickMs == 600          \* milliseconds the clock advances by

(***************************************************************************)
(* Universe: sockets, ingest connections, users, streams.                  *)
(***************************************************************************)
Sockets == {"s1", "s2"}
Conns == {"c1", "c2"}
Users == {"str", "adm", "fan", "guest"}
StreamKeys == {"K1", "K2"}

None == "none"
NoTime == -1

\* models/User.js role (enum user | streamer | admin)
Role(u) == CASE u = "str" -> "streamer"
             [] u = "adm" -> "admin"
             [] OTHER -> "user"

\* models/User.js followers: the users following u
Followers(u) == IF u = "str" THEN {"fan"} ELSE {}

\* models/User.js streamKey: the key a user owns
UserStreamKey(u) == CASE u = "str" -> "K1"
                      [] u = "adm" -> "K2"
                      [] OTHER -> None

\* a credential is the user it was issued to, absent, or one jwt.verify rejects
NoToken == "noToken"
BadToken == "badToken"
Tokens == Users \cup {NoToken, BadToken}

\* jwt.verify(token, secret) followed by User.findById(decoded.id)
VerifyToken(tok) == IF tok \in Users THEN tok ELSE None

(***************************************************************************)
(* Chat text: a sequence of characters; Trim is String.prototype.trim.     *)
(***************************************************************************)
Chars == {" ", "h"}
Texts == UNION {[1..n -> Chars] : n \in 0..MaxTextLen}

RECURSIVE TrimLeft(_)
TrimLeft(t) == IF t = <<>> THEN <<>>
               ELSE IF Head(t) = " " THEN TrimLeft(Tail(t)) ELSE t

RECURSIVE TrimRight(_)
TrimRight(t) == IF t = <<>> THEN <<>>
                ELSE IF t[Len(t)] = " " THEN TrimRight(SubSeq(t, 1, Len(t) - 1)) ELSE t

Trim(t) == TrimRight(TrimLeft(t))

(***************************************************************************)
(* Stream documents.  The schema has no isLive path, so mongoose (strict   *)
(* mode, the default) keeps an isLive assignment on the in-memory document *)
(* object only: save() does not persist it and a document loaded afterwards*)
(* does not carry it.                                                      *)
(***************************************************************************)
SchemaPaths == {"user", "isPrivate", "status", "startedAt", "endedAt", "duration"}

\* duration is <<>> while the path is unset and <<seconds>> once it is set
NoDoc == [exists |-> FALSE, user |-> None, isPrivate |-> FALSE, status |-> None,
          startedAt |-> NoTime, endedAt |-> NoTime, isLive |-> FALSE, duration |-> <<>>]

NewDoc(u, priv, t) == [exists |-> TRUE, user |-> u, isPrivate |-> priv, status |-> "starting",
                       startedAt |-> t, endedAt |-> NoTime, isLive |-> FALSE,
                       duration |-> <<>>]

\* what Stream.findOne / Stream.findById hands back for a stored document
Load(stored) == IF "isLive" \in SchemaPaths THEN stored
                ELSE [stored EXCEPT !.isLive = FALSE]

\* what stream.save() stores of the in-memory document
Persist(doc) == IF "isLive" \in SchemaPaths THEN doc
                ELSE [doc EXCEPT !.isLive = FALSE]

\* `stream:${streamId}`
RoomName(id) == <<"stream", id>>
Rooms == {RoomName(id) : id \in StreamKeys}
RoomStream(r) == r[2]

VARIABLES
  \* ---- WebSocketServer
  sockState,        \* socket -> "open" | "closed"
  sockUser,         \* socket.user: socket -> user | None
  authPc,           \* authenticate handler awaiting User.findById: socket -> user | None
  inRoom,           \* socket.io adapter: room -> set of socket ids (socket.rooms)
  roomSubscribers,  \* this.roomSubscribers: Map room -> Set(socket id)
  connectedUsers,   \* this.connectedUsers: Map user -> Set(socket id)
  joinTask,         \* socket -> its join-stream handler in flight
  joinedOk,         \* socket -> streams it joined successfully and has not left since
  lastViewerCount,  \* room -> the count of the latest viewer-count event for it | NoCount
  emitted,          \* the events the last step emitted, in order
  \* ---- RTMPServer, RecordingService, Stream collection
  db,               \* Stream collection: streamKey -> document
  streamSessions,   \* this.streamSessions: Map (streamKey or connection id) -> session
  activeStreams,    \* this.activeStreams: Map streamKey -> stream data
  recordings,       \* recordingService.recordings: Map streamKey -> recording
  ffmpegProcs,      \* the ffmpeg commands startRecording has run: recording id -> process
  pub,              \* ingest connection -> its publish and the position of its handlers
  endTask,          \* endStream calls in flight
  stopPc,           \* position of stop()
  \* ---- StreamController, play connections
  endReq,           \* the POST /streams/:id/end request in flight
  play,             \* play connection -> its playback and the position of its check
  proc,             \* the server process: "running" | "closing" | "exited"
  now               \* Date.now()

wsVars == <<sockState, sockUser, authPc, inRoom, roomSubscribers, connectedUsers,
            joinTask, joinedOk, lastViewerCount>>
rtmpVars == <<db, streamSessions, activeStreams, recordings, ffmpegProcs, pub, endTask,
              stopPc>>
ctlVars == <<endReq, play, proc>>
vars == <<wsVars, rtmpVars, ctlVars, emitted, now>>

(***************************************************************************)
(* Maps (JavaScript Map): functions whose domain is the set of keys.       *)
(***************************************************************************)
EmptyMap == [x \in {} |-> {}]
MapHas(m, k) == k \in DOMAIN m
MapSet(m, k, v) == [x \in DOMAIN m \cup {k} |-> IF x = k THEN v ELSE m[x]]
MapDelete(m, k) == [x \in DOMAIN m \ {k} |-> m[x]]
MapSize(m, k) == IF MapHas(m, k) THEN Cardinality(m[k]) ELSE 0

(***************************************************************************)
(* Events.  `to` is the set of sockets an event is delivered to.  The      *)
(* response of a request (the callback argument) is the event "reply" to   *)
(* the requesting socket; `arg` is the request it answers.                 *)
(***************************************************************************)
NoRoom == <<"stream", None>>

Ev(type, room, from, user, count, text, to) ==
  [type |-> type, room |-> room, from |-> from, user |-> user, count |-> count,
   text |-> text, arg |-> <<>>, to |-> to, ok |-> TRUE, error |-> None, at |-> NoTime]

ReplyEv(request, room, s, u, ok, err) ==
  [type |-> "reply", room |-> room, from |-> s, user |-> u, count |-> 0,
   text |-> <<>>, arg |-> request, to |-> {s}, ok |-> ok, error |-> err, at |-> NoTime]

\* a promise of an async listener rejects and nothing handles it: what the
\* 'unhandledRejection' handler of the process is called with
Fault(request, s, err) ==
  [ReplyEv(request, None, s, None, FALSE, err) EXCEPT !.type = "fault", !.to = {}]

\* the 'unhandledRejection' handler: server.close(), with process.exit(1)
\* as its callback
ServerClose(p) == IF p = "running" THEN "closing" ELSE p

OpenSockets(st) == {s \in Sockets : st[s] = "open"}

\* io.to(room).emit: every connected socket of the room
ToRoom(rooms, st, r) == rooms[r] \cap OpenSockets(st)
\* socket.to(room).emit: the room but the sender
ToOthers(rooms, st, r, s) == ToRoom(rooms, st, r) \ {s}

IdleJoin == [pc |-> "idle", sock |-> None, stream |-> None, info |-> FALSE, user |-> None]

(***************************************************************************)
(* WebSocketServer                                                         *)
(***************************************************************************)

\* handleDisconnect, lines 183-190: drop the socket from its user's set
DropConnected(cu, u, s) ==
  IF MapHas(cu, u)
  THEN IF cu[u] \ {s} = {} THEN MapDelete(cu, u) ELSE MapSet(cu, u, cu[u] \ {s})
  ELSE cu

\* a disconnect handler that visits every room, subscribed or not
SubscribedRoomsAll(subs, s) == DOMAIN subs

\* a disconnect handler that visits no room
SubscribedRoomsNone(subs, s) == {}

\* handleDisconnect, lines 193-194: the rooms the socket is subscribed to
SubscribedRooms(subs, s) == {r \in DOMAIN subs : s \in subs[r]}

\* a removal that closes the room for everybody
RemoveSubscriberAll(subs, r, s) == MapDelete(subs, r)

\* a removal that keeps the entry of a room nobody is left in
RemoveSubscriberKeep(subs, r, s) == MapSet(subs, r, subs[r] \ {s})

\* remove s from the subscribers of r and drop the room when nobody is left
\* (lines 195, 209-211 and 264, 271-273)
RemoveSubscriber(subs, r, s) ==
  IF subs[r] \ {s} = {} THEN MapDelete(subs, r) ELSE MapSet(subs, r, subs[r] \ {s})

RECURSIVE RemoveFromAll(_, _, _)
RemoveFromAll(subs, rs, s) ==
  IF rs = {} THEN subs
  ELSE LET r == CHOOSE x \in rs : TRUE
       IN RemoveFromAll(RemoveSubscriber(subs, r, s), rs \ {r}, s)

\* the viewer count handleDisconnect broadcasts for room r, lines 195-198
DisconnectCount(subs, r, s) == Cardinality(subs[r] \ {s})

\* the events of handleDisconnect, one viewer-count and one user-left per room
RECURSIVE DisconnectEvents(_, _, _, _, _, _)
DisconnectEvents(subs, rs, s, u, rooms, st) ==
  IF rs = {} THEN <<>>
  ELSE LET r == CHOOSE x \in rs : TRUE
       IN <<Ev("viewer-count", r, s, u, DisconnectCount(subs, r, s), <<>>, ToRoom(rooms, st, r)),
            Ev("user-left", r, s, u, 0, <<>>, ToRoom(rooms, st, r))>>
          \o DisconnectEvents(subs, rs \ {r}, s, u, rooms, st)

\* no viewer-count event has been emitted for the room yet
NoCount == -1

\* the latest viewer-count per room once the events evs have been emitted
LastCounts(last, evs) ==
  [r \in Rooms |->
     LET idx == {i \in 1..Len(evs) : evs[i].type = "viewer-count" /\ evs[i].room = r}
     IN IF idx = {} THEN last[r]
        ELSE evs[CHOOSE i \in idx : \A j \in idx : j <= i].count]

\* the socket closes: socket.io takes it out of its rooms, then the
\* 'disconnect' listener runs handleDisconnect (lines 178-219, 296-298)
HandleDisconnect(s, first) ==
  LET st == [sockState EXCEPT ![s] = "closed"]
      rooms == [r \in Rooms |-> inRoom[r] \ {s}]
      u == sockUser[s]
      rs == SubscribedRooms(roomSubscribers, s)
  IN /\ sockState' = st
     /\ inRoom' = rooms
     /\ joinedOk' = [joinedOk EXCEPT ![s] = {}]
     /\ IF u # None
        THEN /\ connectedUsers' = DropConnected(connectedUsers, u, s)
             /\ roomSubscribers' = RemoveFromAll(roomSubscribers, rs, s)
             /\ emitted' = first \o DisconnectEvents(roomSubscribers, rs, s, u, rooms, st)
        ELSE /\ UNCHANGED <<connectedUsers, roomSubscribers>>
             /\ emitted' = first
     /\ lastViewerCount' = LastCounts(lastViewerCount, emitted')

Disconnect(s) ==
  /\ sockState[s] = "open"
  /\ HandleDisconnect(s, <<>>)
  /\ UNCHANGED <<sockUser, authPc, joinTask, rtmpVars, ctlVars, now>>

\* the events whose listener reads a field of its payload outside every try
\* block: 'authenticate' destructures it (line 226), 'join-stream' reads
\* data.streamId (line 249), handleChatMessage and handleReaction destructure
\* it in their parameter lists (lines 106, 148)
PayloadRequests == {"authenticate", "join-stream", "chat-message", "send-reaction"}

\* a client emits one of these events with no payload: the TypeError rejects
\* the promise of the async listener, no callback is called, and the
\* 'unhandledRejection' handler of server.js (lines 124-132) closes the server
MalformedRequest(s, req) ==
  /\ sockState[s] = "open"
  /\ proc' = ServerClose(proc)
  /\ emitted' = <<Fault(req, s, "TypeError")>>
  /\ UNCHANGED <<wsVars, rtmpVars, endReq, play, now>>

\* the callback of server.close (server.js lines 129-131): every connection
\* has ended, the process exits
ServerClosed ==
  /\ proc = "closing"
  /\ \A s \in Sockets : sockState[s] = "closed"
  /\ proc' = "exited"
  /\ emitted' = <<>>
  /\ UNCHANGED <<wsVars, rtmpVars, endReq, play, now>>

\* socket.on('authenticate'), lines 226-246, up to the await of
\* User.findById in authenticateSocket (lines 18-28).  A missing or invalid
\* token throws before the await: the listener answers and disconnects.
Authenticate(s, tok) ==
  /\ sockState[s] = "open"
  /\ authPc[s] = None
  /\ IF VerifyToken(tok) = None
     THEN /\ HandleDisconnect(s, <<ReplyEv("authenticate", NoRoom, s, None, FALSE,
                                           "Authentication failed")>>)
          /\ UNCHANGED <<sockUser, authPc>>
     ELSE /\ authPc' = [authPc EXCEPT ![s] = VerifyToken(tok)]
          /\ emitted' = <<>>
          /\ UNCHANGED <<sockState, sockUser, inRoom, roomSubscribers, connectedUsers,
                         joinedOk, lastViewerCount>>
  /\ UNCHANGED <<joinTask, rtmpVars, ctlVars, now>>

\* authenticateSocket after User.findById, lines 29-42, and the success
\* response, lines 229-234
AuthenticateFound(s) ==
  /\ authPc[s] # None
  /\ LET u == authPc[s]
     IN /\ sockUser' = [sockUser EXCEPT ![s] = u]
        /\ connectedUsers' = MapSet(connectedUsers, u,
                                    (IF MapHas(connectedUsers, u) THEN connectedUsers[u] ELSE {})
                                    \cup {s})
        /\ emitted' = <<ReplyEv("authenticate", NoRoom, s, u, TRUE, None)>>
  /\ authPc' = [authPc EXCEPT ![s] = None]
  /\ UNCHANGED <<sockState, inRoom, roomSubscribers, joinTask, joinedOk, lastViewerCount, rtmpVars, ctlVars, now>>

\* the private-stream check of handleJoinStream, lines 62-66
JoinDenied(stream, u) ==
  /\ stream.isPrivate
  /\ stream.user # u
  /\ Role(u) # "admin"

\* socket.on('join-stream') and handleJoinStream up to the await of
\* Stream.findById, lines 249-250 and 50-56.  A socket sends its next
\* join-stream when the previous one was answered.
JoinStream(s, id) ==
  /\ sockState[s] = "open"
  /\ joinTask[s].pc = "idle"
  /\ IF sockUser[s] = None
     THEN /\ emitted' = <<ReplyEv("join-stream", RoomName(id), s, None, FALSE, "Not authenticated")>>
          /\ UNCHANGED joinTask
     ELSE /\ joinTask' = [joinTask EXCEPT ![s] =
                            [IdleJoin EXCEPT !.pc = "find", !.sock = s, !.stream = id]]
          /\ emitted' = <<>>
  /\ UNCHANGED <<sockState, sockUser, authPc, inRoom, roomSubscribers, connectedUsers,
                 joinedOk, lastViewerCount, rtmpVars, ctlVars, now>>

\* handleJoinStream from the result of Stream.findById to the await of
\* socket.join, lines 57-71
JoinFound(t) ==
  /\ joinTask[t].pc = "find"
  /\ LET s == joinTask[t].sock
         id == joinTask[t].stream
         stream == Load(db[id])
         u == sockUser[s]
     IN IF ~stream.exists
        THEN /\ emitted' = <<ReplyEv("join-stream", RoomName(id), s, u, FALSE, "Stream not found")>>
             /\ joinTask' = [joinTask EXCEPT ![t] = IdleJoin]
             /\ UNCHANGED inRoom
        ELSE IF JoinDenied(stream, u)
        THEN /\ emitted' = <<ReplyEv("join-stream", RoomName(id), s, u, FALSE,
                                     "Access to private stream denied")>>
             /\ joinTask' = [joinTask EXCEPT ![t] = IdleJoin]
             /\ UNCHANGED inRoom
        ELSE /\ inRoom' = [inRoom EXCEPT ![RoomName(id)] = @ \cup {s}]
             /\ joinTask' = [joinTask EXCEPT ![t].pc = "joined", ![t].user = u]
             /\ emitted' = <<>>
  /\ UNCHANGED <<sockState, sockUser, authPc, roomSubscribers, connectedUsers,
                 joinedOk, lastViewerCount, rtmpVars, ctlVars, now>>

\* a join that takes a socket out again when it is subscribed already
AddSubscriberToggle(subs, r, s) ==
  IF MapHas(subs, r) /\ s \in subs[r]
  THEN MapSet(subs, r, subs[r] \ {s})
  ELSE MapSet(subs, r, (IF MapHas(subs, r) THEN subs[r] ELSE {}) \cup {s})

\* this.roomSubscribers after the socket was added, lines 74-77
AddSubscriber(subs, r, s) ==
  MapSet(subs, r, (IF MapHas(subs, r) THEN subs[r] ELSE {}) \cup {s})

\* handleJoinStream from socket.join to the await of getStreamInfo, lines 73-87
JoinAdd(t) ==
  /\ joinTask[t].pc = "joined"
  /\ LET s == joinTask[t].sock
         id == joinTask[t].stream
         r == RoomName(id)
     IN /\ roomSubscribers' = AddSubscriber(roomSubscribers, r, s)
        /\ emitted' = <<Ev("user-joined", r, s, sockUser[s], 0, <<>>,
                           ToOthers(inRoom, sockState, r, s))>>
        /\ joinTask' = [joinTask EXCEPT ![t].pc = "info", ![t].info = MapHas(activeStreams, id)]
  /\ UNCHANGED <<sockState, sockUser, authPc, inRoom, connectedUsers, joinedOk, lastViewerCount, rtmpVars, ctlVars, now>>

\* a join that counts only the socket that joined
JoinCountSelf(subs, r) == 1

\* the viewer count handleJoinStream broadcasts, line 93
JoinCount(subs, r) == Cardinality(subs[r])

\* handleJoinStream after getStreamInfo, lines 88-102.  Reading the size of a
\* room that was pruned meanwhile throws; the catch answers success:false.
JoinFinish(t) ==
  /\ joinTask[t].pc = "info"
  /\ LET s == joinTask[t].sock
         id == joinTask[t].stream
         r == RoomName(id)
         info == IF joinTask[t].info
                 THEN <<Ev("stream-info", r, s, None, 0, <<>>, {s} \cap OpenSockets(sockState))>>
                 ELSE <<>>
     IN IF MapHas(roomSubscribers, r)
        THEN /\ emitted' = info \o
                           <<Ev("viewer-count", r, s, None, JoinCount(roomSubscribers, r), <<>>,
                                ToRoom(inRoom, sockState, r)),
                             ReplyEv("join-stream", r, s, joinTask[t].user, TRUE, None)>>
             /\ joinedOk' = [joinedOk EXCEPT ![s] =
                               IF sockState[s] = "open" THEN @ \cup {id} ELSE @]
        ELSE /\ emitted' = info \o
                           <<ReplyEv("join-stream", r, s, joinTask[t].user, FALSE, "TypeError")>>
             /\ UNCHANGED joinedOk
  /\ lastViewerCount' = LastCounts(lastViewerCount, emitted')
  /\ joinTask' = [joinTask EXCEPT ![t] = IdleJoin]
  /\ UNCHANGED <<sockState, sockUser, authPc, inRoom, roomSubscribers, connectedUsers,
                 rtmpVars, ctlVars, now>>

\* a leave-stream listener that takes the count before it removes the socket
LeaveCountStale(subs, r, s) == Cardinality(subs[r])

\* the viewer count the leave-stream listener broadcasts, lines 264-267
LeaveCount(subs, r, s) == Cardinality(subs[r] \ {s})

\* socket.on('leave-stream'), lines 257-277
LeaveStream(s, id) ==
  /\ sockState[s] = "open"
  /\ LET r == RoomName(id)
         rooms == [inRoom EXCEPT ![r] = @ \ {s}]
     IN /\ inRoom' = rooms
        /\ IF MapHas(roomSubscribers, r)
           THEN /\ roomSubscribers' = RemoveSubscriber(roomSubscribers, r, s)
                /\ emitted' = <<Ev("viewer-count", r, s, None, LeaveCount(roomSubscribers, r, s),
                                   <<>>, ToRoom(rooms, sockState, r))>>
           ELSE /\ UNCHANGED roomSubscribers
                /\ emitted' = <<>>
  /\ joinedOk' = [joinedOk EXCEPT ![s] = @ \ {id}]
  /\ lastViewerCount' = LastCounts(lastViewerCount, emitted')
  /\ UNCHANGED <<sockState, sockUser, authPc, connectedUsers, joinTask, rtmpVars, ctlVars, now>>

\* a chat handler without the room check
InStreamRoomAny(rooms, s, id) == TRUE

\* handleChatMessage, lines 116-122: is the socket in the stream room
InStreamRoom(rooms, s, id) == s \in rooms[RoomName(id)]

\* handleChatMessage, lines 126-129: the identity stamped on the chat-message
ChatUser(su, s) == su[s]

\* handleChatMessage, line 130: the text of the chat-message object
ChatText(text) == Trim(text)

\* a chat handler that broadcasts like the reaction handler, sender excluded
ChatRecipientsOthers(rooms, st, r, s) == ToOthers(rooms, st, r, s)

\* handleChatMessage, line 135: who the chat-message goes to
ChatRecipients(rooms, st, r, s) == ToRoom(rooms, st, r)

\* a chat handler that refuses the empty string only
EmptyMessageExact(text) == text = <<>>

\* handleChatMessage, line 112: !message || !message.trim()
EmptyMessage(text) == text = <<>> \/ Trim(text) = <<>>

\* the response to a chat-message request with the text it submitted
ChatReply(r, s, u, text, ok, err) == [ReplyEv("chat-message", r, s, u, ok, err) EXCEPT !.text = text]

\* socket.on('chat-message') and handleChatMessage, lines 280-285 and 106-145
ChatMessage(s, id, text) ==
  /\ sockState[s] = "open"
  /\ LET r == RoomName(id)
         u == sockUser[s]
     IN emitted' =
          IF u = None
          THEN <<ChatReply(r, s, u, text, FALSE, "Not authenticated")>>
          ELSE IF EmptyMessage(text)
          THEN <<ChatReply(r, s, u, text, FALSE, "Message cannot be empty")>>
          ELSE IF ~InStreamRoom(inRoom, s, id)
          THEN <<ChatReply(r, s, u, text, FALSE, "Not in the stream room")>>
          ELSE <<[Ev("chat-message", r, s, ChatUser(sockUser, s), 0, ChatText(text),
                     ChatRecipients(inRoom, sockState, r, s)) EXCEPT !.arg = text],
                 ChatReply(r, s, u, text, TRUE, None)>>
  /\ UNCHANGED <<sockState, sockUser, authPc, inRoom, roomSubscribers, connectedUsers,
                 joinTask, joinedOk, lastViewerCount, rtmpVars, ctlVars, now>>

\* a reaction handler that broadcasts like the chat handler, sender included
ReactionRecipientsAll(rooms, st, r, s) == ToRoom(rooms, st, r)

\* handleReaction, line 163: who the reaction goes to
ReactionRecipients(rooms, st, r, s) == ToOthers(rooms, st, r, s)

\* socket.on('send-reaction') and handleReaction, lines 288-293 and 148-175
Reaction(s, id) ==
  /\ sockState[s] = "open"
  /\ LET r == RoomName(id)
         u == sockUser[s]
     IN emitted' =
          IF u = None
          THEN <<ReplyEv("send-reaction", r, s, u, FALSE, "Not authenticated")>>
          ELSE IF ~InStreamRoom(inRoom, s, id)
          THEN <<ReplyEv("send-reaction", r, s, u, FALSE, "Not in the stream room")>>
          ELSE <<Ev("reaction", r, s, u, 0, <<>>, ReactionRecipients(inRoom, sockState, r, s)),
                 ReplyEv("send-reaction", r, s, u, TRUE, None)>>
  /\ UNCHANGED <<sockState, sockUser, authPc, inRoom, roomSubscribers, connectedUsers,
                 joinTask, joinedOk, lastViewerCount, rtmpVars, ctlVars, now>>

(***************************************************************************)
(* RTMPServer.  Both prePublish listeners (lines 416-451 and 557-599) and  *)
(* both donePublish listeners (lines 503-520 and 601-628) are registered   *)
(* on the same emitter: an event runs the first listener up to its first   *)
(* await, then the second listener, in the same step.                      *)
(***************************************************************************)
IdlePub == [stage |-> "idle", pc |-> "idle", key |-> None, user |-> None, doc |-> NoDoc,
            verdict |-> "none", posted |-> FALSE, authz |-> None, authzKey |-> None,
            recStarts |-> 0, recStops |-> 0, started |-> 0]
IdleEnd == [pc |-> "idle", key |-> None, doc |-> NoDoc]

\* the endStream calls in flight: one per donePublish listener (named by the
\* connection) and one per key stop() iterates over (named by the key)
EndTasks == Conns \cup StreamKeys

\* the module of RTMPServer imports no uuidv4 (lines 58-64): evaluating
\* uuidv4() at line 568 throws a ReferenceError
Uuidv4Defined == FALSE

Session(c, type, k, u, t) ==
  [id |-> c, type |-> type, key |-> k, userId |-> u, startTime |-> t]

\* a call or event counter: 0, 1, many
Count(n) == IF n < 2 THEN n + 1 ELSE n

\* Math.floor((endedAt - startedAt) / 1000), lines 386 and 395
DurationSeconds(startedAt, endedAt) == (endedAt - startedAt) \div 1000

\* the pre-save hook of the Stream schema (recordingService.js 308-314) on
\* the in-memory document doc: the duration that save() stores, over the
\* stored value old.  A path set to the value it was loaded with is not
\* modified and not written.
PreSaveDuration(doc, old) ==
  IF /\ doc.endedAt # NoTime
     /\ doc.startedAt # NoTime
     /\ doc.duration # <<DurationSeconds(doc.startedAt, doc.endedAt)>>
  THEN <<DurationSeconds(doc.startedAt, doc.endedAt)>>
  ELSE old

\* io.emit: every connected socket
ToAll(st) == OpenSockets(st)

\* the recording id of the next startRecording: uuidv4(), line 34
NextRecordingId(procs) == Cardinality(DOMAIN procs) + 1

\* the service can start another recording within the bound
CanRecord(procs) == Cardinality(DOMAIN procs) < MaxRecordings

\* RecordingService.startRecording, lines 28-84: the entry of the key
StartRecording(recs, k, u, t, id) ==
  IF MapHas(recs, k) THEN recs ELSE MapSet(recs, k, [userId |-> u, startTime |-> t, id |-> id])

\* RecordingService.startRecording, lines 43-70: the ffmpeg command it runs
SpawnFfmpeg(procs, recs, k) ==
  IF MapHas(recs, k) THEN procs
  ELSE MapSet(procs, NextRecordingId(procs), [key |-> k, state |-> "running"])

\* RecordingService.stopRecording, lines 87-96: the entry of the key
StopRecording(recs, k) == IF MapHas(recs, k) THEN MapDelete(recs, k) ELSE recs

\* RecordingService.stopRecording, line 91: 'q' on the stdin of the process
\* of the key's entry; a running ffmpeg finishes its file and ends
QuitFfmpeg(procs, recs, k) ==
  IF MapHas(recs, k) /\ procs[recs[k].id].state = "running"
  THEN [procs EXCEPT ![recs[k].id].state = "quitting"]
  ELSE procs

\* the ffmpeg processes of key k that can still fire 'end' or 'error'
LiveProcs(procs, k) ==
  {id \in DOMAIN procs : procs[id].key = k /\ procs[id].state \in {"running", "quitting"}}

\* a call of recordingService.startRecording (lines 28-84): false when the
\* key is being recorded already.  The service is an exported singleton; its
\* call in the second prePublish listener (streamRoutes line 587) comes after
\* uuidv4() (line 568).
StartRecordingCall(k, u) ==
  /\ MapHas(recordings, k) \/ CanRecord(ffmpegProcs)
  /\ recordings' = StartRecording(recordings, k, u, now, NextRecordingId(ffmpegProcs))
  /\ ffmpegProcs' = SpawnFfmpeg(ffmpegProcs, recordings, k)
  /\ emitted' = <<[ReplyEv("startRecording", RoomName(k), None, u, ~MapHas(recordings, k), None)
                    EXCEPT !.to = {}]>>
  /\ UNCHANGED <<wsVars, ctlVars, db, streamSessions, activeStreams, pub, endTask, stopPc, now>>

\* a call of recordingService.stopRecording (lines 87-96) for a key whose
\* recording runs: false when the key has no entry
StopRecordingCall(k) ==
  /\ MapHas(recordings, k) => ffmpegProcs[recordings[k].id].state = "running"
  /\ recordings' = StopRecording(recordings, k)
  /\ ffmpegProcs' = QuitFfmpeg(ffmpegProcs, recordings, k)
  /\ emitted' = <<[ReplyEv("stopRecording", RoomName(k), None, None, MapHas(recordings, k), None)
                    EXCEPT !.to = {}]>>
  /\ UNCHANGED <<wsVars, ctlVars, db, streamSessions, activeStreams, pub, endTask, stopPc, now>>

\* a recording-error handler that ends the stream as well
RecordingErrorEndsStream(k, wrote) ==
  /\ MapHas(recordings, k)
  /\ wrote
  /\ \E id \in LiveProcs(ffmpegProcs, k) :
       ffmpegProcs' = [QuitFfmpeg(ffmpegProcs, recordings, k) EXCEPT ![id].state = "exited"]
  /\ recordings' = StopRecording(recordings, k)
  /\ streamSessions' = IF MapHas(streamSessions, k) THEN MapDelete(streamSessions, k)
                       ELSE streamSessions
  /\ emitted' = <<Ev("recording-error", RoomName(k), None, None, 0, <<>>, {}),
                  Ev("stream-ended", RoomName(k), None, None, 0, <<>>, ToAll(sockState))>>
  /\ UNCHANGED <<wsVars, ctlVars, db, activeStreams, pub, endTask, stopPc, now>>

\* ffmpeg's 'error' event of a recording of k (lines 59-62): the handler
\* logs and calls stopRecording(streamKey) (lines 87-96), which works on the
\* entry the key has now.  stopRecording writes 'q' to the stdin of the
\* ffmpeg process of that entry before it deletes the entry; with no
\* process to write to the write throws inside the event handler, the entry
\* stays, and the 'uncaughtException' handler of server.js (lines 147-155)
\* closes the server.
RecordingError(k, wrote) ==
  /\ \E id \in LiveProcs(ffmpegProcs, k) :
       LET gone == [ffmpegProcs EXCEPT ![id].state = "exited"]
       IN /\ ~wrote => (MapHas(recordings, k) /\ recordings[k].id = id)
          /\ ffmpegProcs' = IF wrote THEN QuitFfmpeg(gone, recordings, k) ELSE gone
  /\ IF wrote
     THEN /\ recordings' = StopRecording(recordings, k)
          /\ emitted' = <<Ev("recording-error", RoomName(k), None, None, 0, <<>>, {})>>
          /\ UNCHANGED proc
     ELSE /\ proc' = ServerClose(proc)
          /\ emitted' = <<Ev("recording-error", RoomName(k), None, None, 0, <<>>, {}),
                          Fault("recording-error", None, "TypeError")>>
          /\ UNCHANGED recordings
  /\ UNCHANGED <<wsVars, endReq, play, db, streamSessions, activeStreams, pub, endTask, stopPc, now>>

\* this.recordings after the 'end' handler of recording id, line 65
RecordingEndDelete(recs, k, id) == IF MapHas(recs, k) THEN MapDelete(recs, k) ELSE recs

\* ffmpeg's 'end' event of a recording of k (lines 63-69): the handler
\* deletes the entry of the key and starts generateThumbnail (lines 99-122)
RecordingEnd(k) ==
  /\ \E id \in LiveProcs(ffmpegProcs, k) :
       /\ ffmpegProcs' = [ffmpegProcs EXCEPT ![id].state = "thumbnail"]
       /\ recordings' = RecordingEndDelete(recordings, k, id)
  /\ emitted' = <<Ev("recording-finished", RoomName(k), None, None, 0, <<>>, {})>>
  /\ UNCHANGED <<wsVars, ctlVars, db, streamSessions, activeStreams, pub, endTask, stopPc, now>>

\* generateThumbnail settles (lines 105-121).  Nothing handles the promise
\* returned at line 68: a rejection reaches the 'unhandledRejection' handler
\* of server.js (lines 121-133), which closes the server.
ThumbnailDone(id, ok) ==
  /\ MapHas(ffmpegProcs, id)
  /\ ffmpegProcs[id].state = "thumbnail"
  /\ ffmpegProcs' = [ffmpegProcs EXCEPT ![id].state = "exited"]
  /\ IF ok
     THEN /\ emitted' = <<>>
          /\ UNCHANGED proc
     ELSE /\ proc' = ServerClose(proc)
          /\ emitted' = <<Fault("generateThumbnail", None, "thumbnail error")>>
  /\ UNCHANGED <<wsVars, endReq, play, db, streamSessions, activeStreams, recordings, pub,
                 endTask, stopPc, now>>

\* authenticatePublish up to the await of authenticateUser, lines 117-122 and
\* 158-168.  Without a valid token authenticateUser returns null and the
\* hook returns false.
AuthenticatePublish(c, k, tok) ==
  /\ stopPc # "stopped"
  /\ pub[c].stage = "idle"
  /\ pub[c].authz = None
  /\ ~MapHas(streamSessions, c)
  /\ IF VerifyToken(tok) = None
     THEN /\ emitted' = <<ReplyEv("authenticatePublish", RoomName(k), c, None, FALSE, "Unauthorized")>>
          /\ UNCHANGED pub
     ELSE /\ pub' = [pub EXCEPT ![c].authz = VerifyToken(tok), ![c].authzKey = k]
          /\ emitted' = <<>>
  /\ UNCHANGED <<wsVars, ctlVars, db, streamSessions, activeStreams, recordings, ffmpegProcs, endTask, stopPc, now>>

\* the checks of authenticatePublish, lines 128-138
PublishHookAllows(u, k) ==
  /\ Role(u) \in {"streamer", "admin"}
  /\ UserStreamKey(u) = k

\* authenticatePublish after authenticateUser, lines 123-150
AuthenticatePublishFound(c) ==
  /\ pub[c].authz # None
  /\ LET u == pub[c].authz
         k == pub[c].authzKey
     IN IF PublishHookAllows(u, k)
        THEN /\ streamSessions' = MapSet(streamSessions, c, Session(c, "publish", k, u, now))
             /\ emitted' = <<ReplyEv("authenticatePublish", RoomName(k), c, u, TRUE, None)>>
        ELSE /\ emitted' = <<ReplyEv("authenticatePublish", RoomName(k), c, u, FALSE, "Unauthorized")>>
             /\ UNCHANGED streamSessions
  /\ pub' = [pub EXCEPT ![c].authz = None, ![c].authzKey = None]
  /\ UNCHANGED <<wsVars, ctlVars, db, activeStreams, recordings, ffmpegProcs, endTask, stopPc, now>>

\* the outcome of the first prePublish listener for connection c: it lets the
\* publish go on, or its catch calls session.reject() (lines 444-450)
Verdict(c, k, u, ok, err) == ReplyEv("prePublish", RoomName(k), c, u, ok, err)

\* the error authenticatePublisher throws before its await, lines 183-188
TokenError(tok) == IF tok = NoToken THEN "No token provided" ELSE "invalid token"

\* the second prePublish listener gets past its guard (lines 559-564) and past
\* uuidv4() (line 568)
SecondPrePublishRuns(c) ==
  /\ MapHas(streamSessions, c)
  /\ streamSessions[c].type = "publish"
  /\ Uuidv4Defined

\* the second prePublish listener gets past its guard and throws the
\* ReferenceError of line 568; the listener is async and nothing catches it
SecondPrePublishThrows(c) ==
  /\ MapHas(streamSessions, c)
  /\ streamSessions[c].type = "publish"
  /\ ~Uuidv4Defined

\* the prePublish event: the first listener up to the await in
\* authenticatePublisher (lines 416-424, 182-195), then the second listener
\* (lines 557-599).  A missing or invalid token throws before the await: the
\* catch rejects the connection (lines 444-450).
PrePublish(c, k, tok) ==
  /\ stopPc # "stopped"
  /\ pub[c].stage = "idle"
  /\ pub[c].authz = None
  /\ LET runs == SecondPrePublishRuns(c)
         first == IF VerifyToken(tok) = None
                  THEN [pub[c] EXCEPT !.stage = "open", !.key = k, !.pc = "done",
                                      !.verdict = "rejected"]
                  ELSE [pub[c] EXCEPT !.stage = "open", !.key = k, !.pc = "find",
                                      !.user = VerifyToken(tok)]
     IN /\ pub' = [pub EXCEPT ![c] = [first EXCEPT !.recStarts = IF runs THEN Count(@) ELSE @,
                                                   !.started = IF runs THEN Count(@) ELSE @]]
        /\ activeStreams' =
             IF runs
             THEN MapSet(activeStreams, k, [userId |-> streamSessions[c].userId,
                                            startTime |-> now, viewers |-> 0])
             ELSE activeStreams
        /\ runs => (MapHas(recordings, k) \/ CanRecord(ffmpegProcs))
        /\ recordings' = IF runs
                         THEN StartRecording(recordings, k, streamSessions[c].userId, now,
                                             NextRecordingId(ffmpegProcs))
                         ELSE recordings
        /\ ffmpegProcs' = IF runs THEN SpawnFfmpeg(ffmpegProcs, recordings, k) ELSE ffmpegProcs
        /\ emitted' = (IF VerifyToken(tok) = None
                       THEN <<Verdict(c, k, None, FALSE, TokenError(tok))>>
                       ELSE <<>>)
                      \o
                      (IF runs
                       THEN <<[Ev("stream-started", RoomName(k), c, streamSessions[c].userId, 0,
                                  <<>>, ToAll(sockState)) EXCEPT !.at = now]>>
                       ELSE <<>>)
                      \o
                      (IF SecondPrePublishThrows(c)
                       THEN <<Fault("prePublish", c, "ReferenceError")>>
                       ELSE <<>>)
  /\ proc' = IF SecondPrePublishThrows(c) THEN ServerClose(proc) ELSE proc
  /\ UNCHANGED <<wsVars, endReq, play, db, streamSessions, endTask, stopPc, now>>

\* the ownership check of authenticatePublisher, lines 218-221
PublisherRefused(stream, u) == stream.user # u /\ Role(u) # "admin"

\* the first prePublish listener, lines 426-438: register the session under
\* the stream key, mark the document live and started, and save it
RegisterSession(sessions, c, k, u) == MapSet(sessions, k, Session(c, None, k, u, now))

\* the first prePublish listener from the result of User.findById and
\* Stream.findOne (authenticatePublisher, lines 197-223) to the await of
\* newStream.save() (line 214) or of stream.save() (line 438)
PrePublishFound(c) ==
  /\ pub[c].pc = "find"
  /\ LET k == pub[c].key
         u == pub[c].user
         stream == Load(db[k])
     IN IF ~stream.exists
        THEN /\ pub' = [pub EXCEPT ![c].pc = "create", ![c].doc = NewDoc(u, FALSE, now)]
             /\ emitted' = <<>>
             /\ UNCHANGED streamSessions
        ELSE IF PublisherRefused(stream, u)
        THEN /\ pub' = [pub EXCEPT ![c].pc = "done", ![c].verdict = "rejected", ![c].user = None]
             /\ emitted' = <<Verdict(c, k, u, FALSE, "Unauthorized to stream to this channel")>>
             /\ UNCHANGED streamSessions
        ELSE /\ streamSessions' = RegisterSession(streamSessions, c, k, u)
             /\ pub' = [pub EXCEPT ![c].pc = "save",
                                   ![c].doc = [stream EXCEPT !.isLive = TRUE, !.startedAt = now]]
             /\ emitted' = <<>>
  /\ UNCHANGED <<wsVars, ctlVars, db, activeStreams, recordings, ffmpegProcs, endTask, stopPc, now>>

\* the first prePublish listener after newStream.save(), lines 214-215 and
\* 426-438.  streamKey is unique (schema, lines 217-221): saving a second
\* document for the key fails and the catch rejects the connection.
PrePublishCreated(c) ==
  /\ pub[c].pc = "create"
  /\ LET k == pub[c].key
         u == pub[c].user
     IN IF db[k].exists
        THEN /\ pub' = [pub EXCEPT ![c].pc = "done", ![c].verdict = "rejected", ![c].doc = NoDoc,
                                   ![c].user = None]
             /\ emitted' = <<Verdict(c, k, u, FALSE, "duplicate key")>>
             /\ UNCHANGED <<db, streamSessions>>
        ELSE /\ db' = [db EXCEPT ![k] = Persist(pub[c].doc)]
             /\ streamSessions' = RegisterSession(streamSessions, c, k, u)
             /\ pub' = [pub EXCEPT ![c].pc = "save",
                                   ![c].doc = [pub[c].doc EXCEPT !.isLive = TRUE, !.startedAt = now]]
             /\ emitted' = <<>>
  /\ UNCHANGED <<wsVars, ctlVars, activeStreams, recordings, ffmpegProcs, endTask, stopPc, now>>

\* what stream.save() leaves in the collection: the schema paths the handler
\* modified, on the stored document
SaveStarted(stored, doc) ==
  Persist([stored EXCEPT !.startedAt = doc.startedAt, !.isLive = doc.isLive,
                         !.duration = PreSaveDuration(doc, @)])

\* the first prePublish listener after stream.save(), lines 438-450: the
\* save succeeded, or it failed and the catch rejects the connection
PrePublishSaved(c, saved) ==
  /\ pub[c].pc = "save"
  /\ IF saved
     THEN /\ db' = [db EXCEPT ![pub[c].key] = SaveStarted(@, pub[c].doc)]
          /\ pub' = [pub EXCEPT ![c].pc = "done", ![c].verdict = "admitted", ![c].doc = NoDoc,
                                   ![c].user = None]
          /\ emitted' = <<Verdict(c, pub[c].key, pub[c].user, TRUE, None)>>
     ELSE /\ pub' = [pub EXCEPT ![c].pc = "done", ![c].verdict = "rejected", ![c].doc = NoDoc,
                                   ![c].user = None]
          /\ emitted' = <<Verdict(c, pub[c].key, pub[c].user, FALSE, "save failed")>>
          /\ UNCHANGED db
  /\ UNCHANGED <<wsVars, ctlVars, streamSessions, activeStreams, recordings, ffmpegProcs, endTask, stopPc, now>>

\* the postPublish listener, lines 454-500
PostPublish(c) ==
  /\ stopPc # "stopped"
  /\ pub[c].stage = "open"
  /\ pub[c].verdict # "rejected"
  /\ ~pub[c].posted
  /\ LET k == pub[c].key
     IN IF MapHas(streamSessions, k)
        THEN emitted' = <<[Ev("stream-started", RoomName(k), c, streamSessions[k].userId, 0,
                                 <<>>, ToAll(sockState)) EXCEPT !.at = streamSessions[k].startTime]>>
        ELSE emitted' = <<>>
  /\ pub' = [pub EXCEPT ![c].posted = TRUE,
                        ![c].started = IF MapHas(streamSessions, pub[c].key) THEN Count(@) ELSE @]
  /\ UNCHANGED <<wsVars, ctlVars, db, streamSessions, activeStreams, recordings, ffmpegProcs, endTask, stopPc, now>>

\* the key the second donePublish listener works on, lines 602-603
SecondDoneKey(c, k) == IF MapHas(streamSessions, c) THEN streamSessions[c].key ELSE k

\* the donePublish event: the first listener up to the await of
\* Stream.findOne in endStream (lines 503-512, 358-360), then the second
\* listener (lines 601-628)
DonePublish(c) ==
  /\ stopPc # "stopped"
  /\ pub[c].stage = "open"
  /\ LET k == pub[c].key
         k2 == SecondDoneKey(c, k)
         active == MapHas(activeStreams, k2)
     IN /\ endTask' = IF MapHas(streamSessions, k)
                      THEN [endTask EXCEPT ![c] = [IdleEnd EXCEPT !.pc = "find", !.key = k]]
                      ELSE endTask
        /\ recordings' = IF active THEN StopRecording(recordings, k2) ELSE recordings
        /\ ffmpegProcs' = IF active THEN QuitFfmpeg(ffmpegProcs, recordings, k2) ELSE ffmpegProcs
        /\ activeStreams' = IF active THEN MapDelete(activeStreams, k2) ELSE activeStreams
        /\ streamSessions' = IF active THEN MapDelete(streamSessions, c) ELSE streamSessions
        /\ emitted' = IF active
                      THEN <<[Ev("stream-ended", RoomName(k2), c, activeStreams[k2].userId,
                                 now - activeStreams[k2].startTime, <<>>, ToAll(sockState))
                              EXCEPT !.at = now]>>
                      ELSE <<>>
        /\ pub' = [pub EXCEPT ![c].stage = "done", ![c].started = 0,
                              ![c].recStops = IF active THEN Count(@) ELSE @]
  /\ UNCHANGED <<wsVars, ctlVars, db, stopPc, now>>

\* streamSessions after an endStream call named t has finished: the finally
\* of the donePublish listener deletes the key (lines 515-518), the catch of
\* stop() does not (lines 692-694)
AfterEnd(sessions, t, k) == IF t \in Conns THEN MapDelete(sessions, k) ELSE sessions

\* what an endStream call hands its caller: its result, or the error it
\* throws (lines 363-370, rethrown at 399-401)
EndOutcome(k, ok, err) == [ReplyEv("endStream", RoomName(k), None, None, ok, err) EXCEPT !.to = {}]

\* the error endStream throws after Stream.findOne, lines 363-370
EndError(stream) == IF stream.exists THEN "Stream is not live" ELSE "Stream not found"

\* endStream after Stream.findOne (lines 360-373) and after stream.save()
\* (lines 373-397), with what its caller does when it has finished
EndStreamResume(t) ==
  /\ endTask[t].pc \in {"find", "save"}
  /\ LET k == endTask[t].key
         stream == Load(db[k])
     IN IF endTask[t].pc = "find"
        THEN IF ~stream.exists \/ ~stream.isLive
             THEN /\ endTask' = [endTask EXCEPT ![t] = IdleEnd]
                  /\ streamSessions' = AfterEnd(streamSessions, t, k)
                  /\ emitted' = <<EndOutcome(k, FALSE, EndError(stream))>>
                  /\ UNCHANGED db
             ELSE /\ endTask' = [endTask EXCEPT ![t].pc = "save",
                                  ![t].doc = [stream EXCEPT !.isLive = FALSE, !.endedAt = now]]
                  /\ emitted' = <<>>
                  /\ UNCHANGED <<db, streamSessions>>
        ELSE /\ db' = [db EXCEPT ![k] = Persist([@ EXCEPT !.isLive = FALSE,
                                                        !.endedAt = endTask[t].doc.endedAt,
                                                        !.duration =
                                                          PreSaveDuration(endTask[t].doc, @)])]
             /\ streamSessions' = MapDelete(streamSessions, k)
             /\ emitted' = <<[Ev("stream-ended", RoomName(k), t, endTask[t].doc.user,
                                 DurationSeconds(endTask[t].doc.startedAt, endTask[t].doc.endedAt),
                                 <<>>, ToAll(sockState)) EXCEPT !.at = endTask[t].doc.endedAt]>>
             /\ endTask' = [endTask EXCEPT ![t] = IdleEnd]
  /\ UNCHANGED <<wsVars, ctlVars, activeStreams, recordings, ffmpegProcs, pub, stopPc, now>>

\* the connection is gone: a prePublish listener of it that is still at an
\* await goes on, nothing else of the connection is left
Closed(pb) ==
  IF pb.pc \in {"idle", "done"}
  THEN [IdlePub EXCEPT !.stage = "closed"]
  ELSE [pb EXCEPT !.stage = "closed"]

\* the last doneConnect listener, lines 631-640 (no play session is
\* registered here)
DoneConnect(c) ==
  /\ stopPc # "stopped"
  /\ pub[c].stage \in {"idle", "done"}
  /\ pub[c].authz = None
  /\ pub' = [pub EXCEPT ![c] = Closed(@)]
  /\ streamSessions' = IF MapHas(streamSessions, c) THEN MapDelete(streamSessions, c)
                       ELSE streamSessions
  /\ emitted' = <<>>
  /\ UNCHANGED <<wsVars, ctlVars, db, activeStreams, recordings, ffmpegProcs, endTask, stopPc, now>>

\* stop() up to the await of Promise.all, lines 687-697: one endStream per
\* key of streamSessions.  For a key that is a connection id Stream.findOne
\* finds nothing and the error is logged.
Stop ==
  /\ stopPc = "idle"
  /\ stopPc' = "ending"
  /\ endTask' = [t \in EndTasks |->
                   IF t \in StreamKeys /\ MapHas(streamSessions, t)
                   THEN [IdleEnd EXCEPT !.pc = "find", !.key = t]
                   ELSE endTask[t]]
  /\ emitted' = <<>>
  /\ UNCHANGED <<wsVars, ctlVars, db, streamSessions, activeStreams, recordings, ffmpegProcs, pub, now>>

\* stop() after Promise.all, lines 699-702: the ingest server is stopped
StopFinish ==
  /\ stopPc = "ending"
  /\ \A k \in StreamKeys : endTask[k].pc = "idle"
  /\ stopPc' = "stopped"
  /\ emitted' = <<>>
  /\ UNCHANGED <<wsVars, ctlVars, db, streamSessions, activeStreams, recordings, ffmpegProcs, pub, endTask, now>>

(***************************************************************************)
(* StreamController.endStream, POST /api/streams/:id/end.  req.user is the  *)
(* authenticated caller.                                                   *)
(***************************************************************************)
IdleReq == [pc |-> "idle", key |-> None, user |-> None, endedAt |-> NoTime, doc |-> NoDoc]

HttpReply(request, k, u, ok, err) ==
  [ReplyEv(request, RoomName(k), None, u, ok, err) EXCEPT !.to = {}]

\* the request arrives: up to the await of Stream.findById, lines 152-154
ControllerEndStream(u, k) ==
  /\ endReq.pc = "idle"
  /\ endReq' = [IdleReq EXCEPT !.pc = "find", !.key = k, !.user = u]
  /\ emitted' = <<>>
  /\ UNCHANGED <<wsVars, rtmpVars, play, proc, now>>

\* the ownership check, line 164
EndRefused(stream, u) == u # stream.user /\ Role(u) # "admin"

\* after Stream.findById: 404, 403, or the update up to the await of
\* stream.save(), lines 156-174
ControllerEndFound ==
  /\ endReq.pc = "find"
  /\ LET k == endReq.key
         u == endReq.user
         stream == Load(db[k])
     IN IF ~stream.exists
        THEN /\ emitted' = <<HttpReply("endStream", k, u, FALSE, "Stream not found")>>
             /\ endReq' = IdleReq
        ELSE IF EndRefused(stream, u)
        THEN /\ emitted' = <<HttpReply("endStream", k, u, FALSE,
                                       "Not authorized to end this stream")>>
             /\ endReq' = IdleReq
        ELSE /\ emitted' = <<>>
             /\ endReq' = [endReq EXCEPT !.pc = "save", !.endedAt = now,
                                         !.doc = [stream EXCEPT !.status = "ended",
                                                                !.endedAt = now]]
  /\ UNCHANGED <<wsVars, rtmpVars, play, proc, now>>

\* what stream.save() stores: the status and the endedAt the handler set
SaveEnded(stored, doc) ==
  Persist([stored EXCEPT !.status = "ended", !.endedAt = doc.endedAt,
                         !.duration = PreSaveDuration(doc, @)])

\* after stream.save(), lines 174-186
ControllerEndSaved ==
  /\ endReq.pc = "save"
  /\ db' = [db EXCEPT ![endReq.key] = SaveEnded(@, endReq.doc)]
  /\ emitted' = <<HttpReply("endStream", endReq.key, endReq.user, TRUE, None)>>
  /\ endReq' = IdleReq
  /\ UNCHANGED <<wsVars, streamSessions, activeStreams, recordings, ffmpegProcs, pub, endTask, stopPc,
                 play, proc, now>>

(***************************************************************************)
(* Play connections: the prePlay, postPlay and donePlay listeners (lines   *)
(* 523-555) and the authenticatePlay hook (lines 76-114).  The prePlay     *)
(* listener starts authenticateViewer and returns; the check settles later.*)
(***************************************************************************)
Players == {"p1", "p2"}
IdlePlay == [stage |-> "idle", pc |-> "idle", key |-> None, token |-> None,
             playing |-> FALSE, verdict |-> "none", authz |-> None]

PlayVerdict(p, k, u, ok, err) == ReplyEv("prePlay", RoomName(k), p, u, ok, err)

\* the prePlay listener up to the await of Stream.findOne in
\* authenticateViewer, lines 523-530 and 231-234
PrePlay(p, k, tok) ==
  /\ play[p].stage = "idle"
  /\ play[p].authz = None
  /\ play' = [play EXCEPT ![p].stage = "open", ![p].pc = "find", ![p].key = k,
                          ![p].token = tok]
  /\ emitted' = <<>>
  /\ UNCHANGED <<wsVars, rtmpVars, endReq, proc, now>>

\* the check settles: the .then logs, the .catch rejects a session that is
\* still there (lines 530-540)
Settle(pl, ok) ==
  [pl EXCEPT !.pc = "done",
             !.verdict = IF ok THEN "admitted" ELSE "rejected",
             !.playing = IF ok THEN @ ELSE FALSE]

\* authenticateViewer after Stream.findOne, up to the await of User.findById,
\* lines 236-251
PrePlayFound(p) ==
  /\ play[p].pc = "find"
  /\ LET k == play[p].key
         tok == play[p].token
         stream == Load(db[k])
     IN IF ~stream.exists
        THEN /\ play' = [play EXCEPT ![p] = Settle(@, FALSE)]
             /\ emitted' = <<PlayVerdict(p, k, None, FALSE, "Stream not found")>>
        ELSE IF ~stream.isPrivate
        THEN /\ play' = [play EXCEPT ![p] = Settle(@, TRUE)]
             /\ emitted' = <<PlayVerdict(p, k, None, TRUE, None)>>
        ELSE IF tok = NoToken
        THEN /\ play' = [play EXCEPT ![p] = Settle(@, FALSE)]
             /\ emitted' = <<PlayVerdict(p, k, None, FALSE,
                                         "Authentication required for private stream")>>
        ELSE IF VerifyToken(tok) = None
        THEN /\ play' = [play EXCEPT ![p] = Settle(@, FALSE)]
             /\ emitted' = <<PlayVerdict(p, k, None, FALSE, "invalid token")>>
        ELSE /\ play' = [play EXCEPT ![p].pc = "user"]
             /\ emitted' = <<>>
  /\ UNCHANGED <<wsVars, rtmpVars, endReq, proc, now>>

\* the paths of the owner .populate('user', 'username profilePicture') loads
PopulateSelect == {"username", "profilePicture"}

\* stream.user.followers of the populated owner
PopulatedFollowers(owner) == IF "followers" \in PopulateSelect THEN Followers(owner) ELSE {}

\* the outcomes of reading the followers path the query did not select: it is
\* undefined, or an empty array
UnselectedPath == {"undefined", "empty"}

\* authenticateViewer after User.findById, lines 253-267
PrePlayUser(p, followers) ==
  /\ play[p].pc = "user"
  /\ LET k == play[p].key
         u == VerifyToken(play[p].token)
         stream == Load(db[k])
         isOwner == stream.user = u
         isAdmin == Role(u) = "admin"
         isFollower == u \in PopulatedFollowers(stream.user)
     IN IF "followers" \notin PopulateSelect /\ followers = "undefined"
        THEN /\ play' = [play EXCEPT ![p] = Settle(@, FALSE)]
             /\ emitted' = <<PlayVerdict(p, k, u, FALSE, "TypeError")>>
        ELSE IF ~isOwner /\ ~isAdmin /\ ~isFollower
        THEN /\ play' = [play EXCEPT ![p] = Settle(@, FALSE)]
             /\ emitted' = <<PlayVerdict(p, k, u, FALSE,
                                         "Not authorized to view this private stream")>>
        ELSE /\ play' = [play EXCEPT ![p] = Settle(@, TRUE)]
             /\ emitted' = <<PlayVerdict(p, k, u, TRUE, None)>>
  /\ UNCHANGED <<wsVars, rtmpVars, endReq, proc, now>>

\* the postPlay listener, lines 543-549: playback has started
PostPlay(p) ==
  /\ play[p].stage = "open"
  /\ play[p].verdict # "rejected"
  /\ ~play[p].playing
  /\ play' = [play EXCEPT ![p].playing = TRUE]
  /\ emitted' = <<>>
  /\ UNCHANGED <<wsVars, rtmpVars, endReq, proc, now>>

\* the donePlay listener, lines 552-555: the play connection has ended
DonePlay(p) ==
  /\ play[p].stage = "open"
  /\ play' = [play EXCEPT ![p].stage = "closed", ![p].playing = FALSE]
  /\ emitted' = <<>>
  /\ UNCHANGED <<wsVars, rtmpVars, endReq, proc, now>>

\* the authenticatePlay hook, lines 76-114: up to the await of
\* authenticateUser for a stream of activeStreams, and after it
AuthenticatePlay(p, k, tok) ==
  /\ play[p].stage = "idle"
  /\ IF play[p].authz = None
     THEN IF ~MapHas(activeStreams, k)
          THEN /\ emitted' = <<ReplyEv("authenticatePlay", RoomName(k), p, None, FALSE,
                                       "Stream not found")>>
               /\ UNCHANGED <<play, streamSessions>>
          ELSE IF VerifyToken(tok) = None
          THEN /\ emitted' = <<ReplyEv("authenticatePlay", RoomName(k), p, None, FALSE,
                                       "Unauthorized")>>
               /\ UNCHANGED <<play, streamSessions>>
          ELSE /\ play' = [play EXCEPT ![p].authz = VerifyToken(tok), ![p].key = k]
               /\ emitted' = <<>>
               /\ UNCHANGED streamSessions
     ELSE /\ streamSessions' = MapSet(streamSessions, p,
                                      Session(p, "play", play[p].key, play[p].authz, now))
          /\ play' = [play EXCEPT ![p].authz = None, ![p].key = None]
          /\ emitted' = <<ReplyEv("authenticatePlay", RoomName(play[p].key), p, play[p].authz,
                                  TRUE, None)>>
  /\ UNCHANGED <<wsVars, db, activeStreams, recordings, ffmpegProcs, pub, endTask, stopPc, endReq, proc, now>>

\* time passes
Tick ==
  /\ now < MaxTime * TickMs
  /\ now' = now + TickMs
  /\ emitted' = <<>>
  /\ UNCHANGED <<wsVars, rtmpVars, ctlVars>>

(***************************************************************************)
(* Initial state: the registries are empty (constructors, webSocketServer  *)
(* lines 8-15, streamRoutes lines 67-73, recordingService lines 8-11); the *)
(* sockets have just connected (lines 222-223): no user, no room.          *)
(* The Stream collection holds the private stream K1 of the streamer and   *)
(* may hold the public stream K2 of the admin.                             *)
(***************************************************************************)
InitWs ==
  /\ sockState = [s \in Sockets |-> "open"]
  /\ sockUser = [s \in Sockets |-> None]
  /\ authPc = [s \in Sockets |-> None]
  /\ inRoom = [r \in Rooms |-> {}]
  /\ roomSubscribers = EmptyMap
  /\ connectedUsers = EmptyMap
  /\ joinTask = [s \in Sockets |-> IdleJoin]
  /\ joinedOk = [s \in Sockets |-> {}]
  /\ lastViewerCount = [r \in Rooms |-> NoCount]
  /\ emitted = <<>>

InitRtmp ==
  /\ db \in {[k \in StreamKeys |-> IF k = "K1" THEN NewDoc("str", TRUE, 0) ELSE d] :
               d \in {NoDoc, NewDoc("adm", FALSE, 0)}}
  /\ streamSessions = EmptyMap
  /\ activeStreams = EmptyMap
  /\ recordings = EmptyMap
  /\ ffmpegProcs = EmptyMap
  /\ pub = [c \in Conns |-> IdlePub]
  /\ endTask = [t \in EndTasks |-> IdleEnd]
  /\ stopPc = "idle"
  /\ endReq = IdleReq
  /\ play = [p \in Players |-> IdlePlay]
  /\ proc = "running"
  /\ now = 0

Init == InitWs /\ InitRtmp

\* the socket requests, over the streams ids and the credentials toks; a
\* socket authenticates once
WsRequests(ids, toks) ==
  \/ \E s \in Sockets : Disconnect(s)
  \/ \E s \in Sockets, tok \in toks : sockUser[s] = None /\ Authenticate(s, tok)
  \/ \E s \in Sockets : AuthenticateFound(s)
  \/ \E s \in Sockets, id \in ids : JoinStream(s, id)
  \/ \E s \in Sockets : JoinFound(s)
  \/ \E s \in Sockets : JoinAdd(s)
  \/ \E s \in Sockets : JoinFinish(s)
  \/ \E s \in Sockets, id \in ids : LeaveStream(s, id)

\* rooms and viewer counts, over both streams
NextWs == WsRequests(StreamKeys, Tokens)

SpecWs == Init /\ [][NextWs]_vars

\* chat in the room of the public stream
ChatStreams == {"K2"}

NextChat ==
  \/ WsRequests(ChatStreams, Tokens)
  \/ \E s \in Sockets, id \in ChatStreams, text \in Texts : ChatMessage(s, id, text)

SpecChat == Init /\ [][NextChat]_vars

\* reactions in the room of the public stream
NextReact ==
  \/ WsRequests(ChatStreams, Tokens)
  \/ \E s \in Sockets, id \in ChatStreams : Reaction(s, id)

SpecReact == Init /\ [][NextReact]_vars

\* every request of a socket, an 'authenticate' of a socket that has a user
\* already included
RejectTokens == {NoToken, "fan"}
RejectTexts == {t \in Texts : Len(t) <= 1}

NextReject ==
  \/ \E s \in Sockets : Disconnect(s)
  \/ \E s \in Sockets, tok \in RejectTokens : Authenticate(s, tok)
  \/ \E s \in Sockets : AuthenticateFound(s)
  \/ \E s \in Sockets, id \in ChatStreams : JoinStream(s, id)
  \/ \E s \in Sockets : JoinFound(s)
  \/ \E s \in Sockets : JoinAdd(s)
  \/ \E s \in Sockets : JoinFinish(s)
  \/ \E s \in Sockets, id \in ChatStreams : LeaveStream(s, id)
  \/ \E s \in Sockets, id \in ChatStreams, text \in RejectTexts : ChatMessage(s, id, text)
  \/ \E s \in Sockets, id \in ChatStreams : Reaction(s, id)

SpecReject == Init /\ [][NextReject]_vars

\* sockets that authenticate again, with the tokens of two users
ReauthTokens == {"fan", "str"}

NextReauth ==
  \/ \E s \in Sockets : Disconnect(s)
  \/ \E s \in Sockets, tok \in ReauthTokens : Authenticate(s, tok)
  \/ \E s \in Sockets : AuthenticateFound(s)

SpecReauth == Init /\ [][NextReauth]_vars

\* the process has not exited: its listeners and pending handlers still run
Running == proc # "exited"

\* reactions and requests without a payload, until the process exits
NextFault ==
  \/ \E s \in Sockets : Running /\ Disconnect(s)
  \/ \E s \in Sockets, tok \in Tokens : Running /\ sockUser[s] = None /\ Authenticate(s, tok)
  \/ \E s \in Sockets : Running /\ AuthenticateFound(s)
  \/ \E s \in Sockets, id \in ChatStreams : Running /\ JoinStream(s, id)
  \/ \E s \in Sockets : Running /\ JoinFound(s)
  \/ \E s \in Sockets : Running /\ JoinAdd(s)
  \/ \E s \in Sockets : Running /\ JoinFinish(s)
  \/ \E s \in Sockets, id \in ChatStreams : Running /\ LeaveStream(s, id)
  \/ \E s \in Sockets, id \in ChatStreams : Running /\ Reaction(s, id)
  \/ \E s \in Sockets, req \in PayloadRequests : MalformedRequest(s, req)
  \/ ServerClosed

SpecFault == Init /\ [][NextFault]_vars

\* the tokens publishers present
PublishTokens == {NoToken, "str", "fan"}

\* the ingest events, over the stream keys and tokens given
RtmpEvents(keys, toks) ==
  \/ \E c \in Conns, k \in keys, tok \in toks : PrePublish(c, k, tok)
  \/ \E c \in Conns : PrePublishFound(c)
  \/ \E c \in Conns : PrePublishCreated(c)
  \/ \E c \in Conns, saved \in BOOLEAN : PrePublishSaved(c, saved)
  \/ \E c \in Conns : PostPublish(c)
  \/ \E c \in Conns : DonePublish(c)
  \/ \E t \in EndTasks : EndStreamResume(t)
  \/ \E c \in Conns : DoneConnect(c)
  \/ Stop
  \/ StopFinish

NextRtmp == RtmpEvents(StreamKeys, PublishTokens) \/ Tick

SpecRtmp == Init /\ [][NextRtmp]_vars

\* the recording of the public stream while its owner publishes it
RecKeys == {"K2"}
RecTokens == {"adm"}

RecConns == {"c1"}

NextRec ==
  \/ \E c \in RecConns, k \in RecKeys, tok \in RecTokens : PrePublish(c, k, tok)
  \/ \E c \in RecConns : PrePublishFound(c)
  \/ \E c \in RecConns : PrePublishCreated(c)
  \/ \E c \in RecConns, saved \in BOOLEAN : PrePublishSaved(c, saved)
  \/ \E c \in RecConns : PostPublish(c)
  \/ \E c \in RecConns : DonePublish(c)
  \/ \E t \in RecConns : EndStreamResume(t)
  \/ \E c \in RecConns : DoneConnect(c)
  \/ \E k \in RecKeys, u \in RecTokens : StartRecordingCall(k, u)
  \/ \E k \in RecKeys, wrote \in BOOLEAN : RecordingError(k, wrote)
  \/ \E k \in RecKeys : StopRecordingCall(k)
  \/ \E k \in RecKeys : RecordingEnd(k)
  \/ \E id \in 1..MaxRecordings, ok \in BOOLEAN : ThumbnailDone(id, ok)
  \/ Tick

SpecRec == Init /\ [][NextRec]_vars

\* the handlers that are at an await resume; nothing obliges a client to
\* send an event or a caller to call the recording service
ResumeRec ==
  \/ \E c \in RecConns : PrePublishFound(c)
  \/ \E c \in RecConns : PrePublishCreated(c)
  \/ \E c \in RecConns, saved \in BOOLEAN : PrePublishSaved(c, saved)
  \/ \E t \in RecConns : EndStreamResume(t)

SpecRecFair == SpecRec /\ WF_vars(ResumeRec)

\* the ingest events of connections that call the authenticatePublish hook
\* before they publish
HookKeys == {"K2"}
HookTokens == {NoToken, "adm"}

NextHook ==
  \/ \E c \in Conns, k \in HookKeys, tok \in HookTokens : AuthenticatePublish(c, k, tok)
  \/ \E c \in Conns : AuthenticatePublishFound(c)
  \/ RtmpEvents(HookKeys, HookTokens)
  \/ Tick

SpecHook == Init /\ [][NextHook]_vars

\* the play connections, over all stream keys and tokens
NextPlay ==
  \/ \E p \in Players, k \in StreamKeys, tok \in Tokens : AuthenticatePlay(p, k, tok)
  \/ \E p \in Players, k \in StreamKeys, tok \in Tokens : PrePlay(p, k, tok)
  \/ \E p \in Players : PrePlayFound(p)
  \/ \E p \in Players, followers \in UnselectedPath : PrePlayUser(p, followers)
  \/ \E p \in Players : PostPlay(p)
  \/ \E p \in Players : DonePlay(p)

SpecPlay == Init /\ [][NextPlay]_vars

\* the HTTP end request next to the ingest events of one stream key
CtlKeys == {"K2"}
CtlUsers == {"adm", "fan"}
CtlTokens == {NoToken, "adm"}

NextCtl ==
  \/ \E u \in CtlUsers, k \in CtlKeys : ControllerEndStream(u, k)
  \/ ControllerEndFound
  \/ ControllerEndSaved
  \/ RtmpEvents(CtlKeys, CtlTokens)

SpecCtl == Init /\ [][NextCtl]_vars

\* the saves of one stream record over time: its owner publishes it, ends
\* it over HTTP and publishes it again
DurKeys == {"K2"}
DurUsers == {"adm"}

NextDur ==
  \/ \E c \in Conns, k \in DurKeys, tok \in DurUsers : PrePublish(c, k, tok)
  \/ \E c \in Conns : PrePublishFound(c)
  \/ \E c \in Conns : PrePublishCreated(c)
  \/ \E c \in Conns, saved \in BOOLEAN : PrePublishSaved(c, saved)
  \/ \E c \in Conns : DonePublish(c)
  \/ \E t \in Conns : EndStreamResume(t)
  \/ \E u \in DurUsers, k \in DurKeys : ControllerEndStream(u, k)
  \/ ControllerEndFound
  \/ ControllerEndSaved
  \/ Tick

SpecDur == Init /\ [][NextDur]_vars

(***************************************************************************)
(* Properties of the WebSocketServer                                       *)
(***************************************************************************)
EmittedEvents == {emitted[i] : i \in 1..Len(emitted)}
ViewerCounts == {e \in EmittedEvents : e.type = "viewer-count"}
ChatMessages == {e \in EmittedEvents : e.type = "chat-message"}
JoinReplies == {e \in EmittedEvents : e.type = "reply" /\ e.arg = "join-stream"}

\* C3: every viewer-count event emitted by a join, a leave or a disconnect
\* carries the number of subscribers the room has at the moment of the
\* broadcast (0 for a room that has just been pruned).
ViewerCountIsMemberCount ==
  \A e \in ViewerCounts : e.count = MapSize(roomSubscribers, e.room)

\* a leave or disconnect of one of two members broadcasts the count 1
ViewerCountAfterRemoval ==
  \E e \in ViewerCounts :
    /\ e.count = 1
    /\ MapHas(roomSubscribers, e.room)
    /\ e.from \notin roomSubscribers[e.room]

\* who may join the private stream: its owner, an admin, a follower of the owner
MayJoinPrivate(u, stream) ==
  /\ u # None
  /\ \/ u = stream.user
     \/ Role(u) = "admin"
     \/ u \in Followers(stream.user)

\* C5: a join to a private stream succeeds if and only if the joining
\* identity is the owner, an admin or a follower of the owner.
PrivateJoinIffOwnerAdminFollower ==
  \A e \in JoinReplies :
    LET stream == db[RoomStream(e.room)]
    IN (stream.exists /\ stream.isPrivate) => (e.ok <=> MayJoinPrivate(e.user, stream))

\* C6 as stated: a chat-message is broadcast only for a connection whose join
\* for that stream has already returned success, with no leave or disconnect
\* since.
ChatOnlyAfterJoinReturned ==
  \A e \in ChatMessages : RoomStream(e.room) \in joinedOk[e.from]

\* the join of s for stream id has passed its checks and entered the room,
\* and has not answered yet
JoinPastChecks(s, id) ==
  /\ joinTask[s].pc \in {"joined", "info"}
  /\ joinTask[s].stream = id

\* C6 amended: a chat-message is broadcast only for a connection whose join
\* for that stream has passed its checks and entered the room, and which has
\* not left or disconnected since: the join has returned success or is still
\* in flight after socket.join.
ChatOnlyAfterJoinEntered ==
  \A e \in ChatMessages :
    \/ RoomStream(e.room) \in joinedOk[e.from]
    \/ JoinPastChecks(e.from, RoomStream(e.room))

\* a member whose join returned success chats
ChatByJoinedMember ==
  \E e \in ChatMessages : RoomStream(e.room) \in joinedOk[e.from]

\* C9: no room is kept with an empty subscriber set (the leave or disconnect
\* that removes the last subscriber prunes the entry), a join onto a stream
\* without a room creates a room whose only subscriber is the joiner, and the
\* join that finishes on such a room broadcasts the count 1.
RoomPrunedWhenEmpty ==
  [][ /\ \A r \in DOMAIN roomSubscribers' : roomSubscribers'[r] # {}
      /\ \A r \in DOMAIN roomSubscribers' \ DOMAIN roomSubscribers :
           \E s \in Sockets : /\ roomSubscribers'[r] = {s}
                              /\ joinTask[s].pc = "joined"
                              /\ joinTask[s].stream = RoomStream(r)
      /\ \A s \in Sockets :
           (/\ joinTask[s].pc = "info"
            /\ joinTask'[s].pc = "idle"
            /\ MapHas(roomSubscribers, RoomName(joinTask[s].stream))
            /\ roomSubscribers[RoomName(joinTask[s].stream)] = {s})
           => \E e \in {emitted'[i] : i \in 1..Len(emitted')} :
                e.type = "viewer-count" /\ e.from = s /\ e.count = 1
    ]_vars

\* the last subscriber has just left: the count 0 was broadcast and the room is gone
LastMemberLeft ==
  \E e \in ViewerCounts : e.count = 0 /\ ~MapHas(roomSubscribers, e.room)

\* C10 as stated: a chat-message goes to every socket of the room, the sender
\* included, and to nobody else, and carries the sender's identity and the
\* submitted text.
ChatCarriesSubmittedText ==
  \A e \in ChatMessages :
    /\ e.to = inRoom[e.room] \cap OpenSockets(sockState)
    /\ e.from \in e.to
    /\ e.user = sockUser[e.from]
    /\ e.text = e.arg

\* C10 amended: a chat-message goes to every connected socket of the room, the
\* sender included, and to nobody else, and carries the sender's identity and
\* the submitted text with its leading and trailing whitespace removed.
ChatCarriesTrimmedText ==
  \A e \in ChatMessages :
    /\ e.to = inRoom[e.room] \cap OpenSockets(sockState)
    /\ e.from \in e.to
    /\ e.user = sockUser[e.from]
    /\ e.text = Trim(e.arg)
    /\ e.text # <<>>

\* a chat text with surrounding whitespace reaches both sockets of the room
TrimmedChatToTwo ==
  \E e \in ChatMessages : e.text # e.arg /\ Cardinality(e.to) = 2

(***************************************************************************)
(* Properties of the RTMPServer                                            *)
(***************************************************************************)
\* the connections whose publish of key k the prePublish listener let
\* through and that are still publishing
Publishers(k) ==
  {c \in Conns : pub[c].stage = "open" /\ pub[c].key = k /\ pub[c].verdict = "admitted"}

\* C1: no state has two connections both admitted as publisher of the same
\* stream key
ExclusivePublisher == \A k \in StreamKeys : Cardinality(Publishers(k)) <= 1

\* the prePublish listener of connection c for key k is at an await while
\* another connection is the registered and admitted publisher of k
SecondAttempt(c, k) ==
  /\ pub[c].pc \in {"find", "create", "save"}
  /\ pub[c].key = k
  /\ MapHas(streamSessions, k)
  /\ streamSessions[k].id # c
  /\ streamSessions[k].id \in Publishers(k)

\* C2: a step of a publish attempt for a key another connection is
\* publishing does not admit the attempt and leaves the registered session
\* of the key and the startedAt of its stream as they were
SecondPublishRejected ==
  [][\A c \in Conns, k \in StreamKeys :
       (SecondAttempt(c, k) /\ pub'[c].pc # pub[c].pc)
         => /\ pub'[c].verdict = "rejected"
            /\ MapHas(streamSessions', k)
            /\ streamSessions'[k] = streamSessions[k]
            /\ db'[k].startedAt = db[k].startedAt]_vars

\* the stream of key k went live: the listener admitted a publish of it
WentLive(k) == \E c \in Conns : pub[c].key = k /\ pub[c].verdict = "admitted"

StreamEnded(evs, k) ==
  {i \in 1..Len(evs) : evs[i].type = "stream-ended" /\ evs[i].room = RoomName(k)}

\* C4: an endStream call on a stream that went live leaves endedAt set; the
\* call that sets it emits stream-ended once, and a call that finds it set
\* keeps it and emits nothing
EndIsIdempotent ==
  [][\A t \in EndTasks :
       (endTask[t].pc # "idle" /\ endTask'[t].pc = "idle" /\ WentLive(endTask[t].key))
         => LET k == endTask[t].key
            IN /\ db'[k].endedAt # NoTime
               /\ IF db[k].endedAt = NoTime
                  THEN Cardinality(StreamEnded(emitted', k)) = 1
                  ELSE /\ db'[k].endedAt = db[k].endedAt
                       /\ StreamEnded(emitted', k) = {}]_vars

\* C7: a publish that was authorized and confirmed started the recording
\* exactly once
RecordingStartedOnce ==
  \A c \in Conns :
    (pub[c].stage = "open" /\ pub[c].verdict = "admitted" /\ pub[c].posted)
      => pub[c].recStarts = 1

\* C8: when the end of an admitted publish has been handled, the stream has
\* its endedAt, the step emitted a stream-ended event whose duration is
\* endedAt - startedAt, and the recording was stopped exactly once
PublisherEndsStream ==
  [][\A c \in Conns :
       (endTask[c].pc # "idle" /\ endTask'[c].pc = "idle" /\ pub[c].verdict = "admitted")
         => LET k == endTask[c].key
            IN /\ db'[k].endedAt # NoTime
               /\ \E i \in StreamEnded(emitted', k) :
                    emitted'[i].count = db'[k].endedAt - db'[k].startedAt
               /\ pub'[c].recStops = 1]_vars

\* C11: a stream has an endedAt exactly when its status is ended or error,
\* and the step that admits a publish leaves the stream without endedAt and
\* with the status starting or live
EndedAtIffEnded ==
  [][ /\ \A k \in StreamKeys :
           db'[k].exists => (db'[k].endedAt # NoTime <=> db'[k].status \in {"ended", "error"})
      /\ \A c \in Conns :
           (pub[c].pc = "save" /\ pub'[c].verdict = "admitted")
             => /\ db'[pub[c].key].endedAt = NoTime
                /\ db'[pub[c].key].status \in {"starting", "live"}
    ]_vars

\* C12: a stream key that has an admitted publisher has a publish session
\* registered under it
LiveHasSession ==
  \A k \in StreamKeys : Publishers(k) # {} => MapHas(streamSessions, k)

Verdicts == {e \in EmittedEvents : e.type = "reply" /\ e.arg = "prePublish"}

\* who may publish key k: a streamer or admin who owns the key or is an admin
MayPublish(u, k) ==
  /\ u # None
  /\ Role(u) \in {"streamer", "admin"}
  /\ (UserStreamKey(u) = k \/ Role(u) = "admin")

\* C13: a publish attempt is admitted if and only if its credential is valid,
\* the role is streamer or admin, and the identity owns the key or is an
\* admin (a failed save of the stream aside)
PublishAdmittedIffAuthorized ==
  \A e \in Verdicts :
    e.error \notin {"save failed", "duplicate key"}
      => (e.ok <=> MayPublish(e.user, RoomStream(e.room)))

PlayVerdicts == {e \in EmittedEvents : e.type = "reply" /\ e.arg = "prePlay"}

\* C14: a play attempt on a public stream is admitted, a play attempt on a
\* private stream is admitted only for the owner, an admin or a follower of
\* the owner, and no connection plays a private stream without being one of
\* these
PlayAuthorized ==
  /\ \A e \in PlayVerdicts :
       LET stream == db[RoomStream(e.room)]
       IN stream.exists =>
            IF stream.isPrivate THEN e.ok => MayJoinPrivate(e.user, stream) ELSE e.ok
  /\ \A p \in Players :
       (play[p].playing /\ db[play[p].key].exists /\ db[play[p].key].isPrivate)
         => MayJoinPrivate(VerifyToken(play[p].token), db[play[p].key])

ChatReplies == {e \in EmittedEvents : e.type = "reply" /\ e.arg = "chat-message"}
BlankChatReplies == {e \in ChatReplies : Trim(e.text) = <<>>}

\* C15 as stated: a chat-message request with an empty or whitespace-only
\* text fails with the validation error and broadcasts no chat-message.
BlankChatIsValidationError ==
  \A e \in BlankChatReplies :
    ~e.ok /\ e.error = "Message cannot be empty" /\ ChatMessages = {}

\* C15 amended: a chat-message request with an empty or whitespace-only text
\* fails and broadcasts no chat-message; the error is the validation error
\* for an authenticated socket and "Not authenticated" for any other.
BlankChatFails ==
  \A e \in BlankChatReplies :
    /\ ~e.ok
    /\ ChatMessages = {}
    /\ e.error = IF sockUser[e.from] = None THEN "Not authenticated"
                 ELSE "Message cannot be empty"

\* a member of the room submits a text of whitespace only
BlankChatByMember ==
  \E e \in BlankChatReplies : e.text # <<>> /\ e.from \in inRoom[e.room]

ReactionReplies == {e \in EmittedEvents : e.type = "reply" /\ e.arg = "send-reaction"}
Reactions == {e \in EmittedEvents : e.type = "reaction"}

\* the connected sockets of the room of e but its sender
OtherMembers(e) == (inRoom[e.room] \cap OpenSockets(sockState)) \ {e.from}

\* a reaction of a socket of the room goes to the other sockets of the room,
\* a reaction of any other socket fails and goes to nobody
ReactionFanOut(e) ==
  IF e.from \in inRoom[e.room]
  THEN /\ e.ok
       /\ \E x \in Reactions : x.from = e.from /\ x.room = e.room /\ x.to = OtherMembers(e)
       /\ \A x \in Reactions : e.from \notin x.to
  ELSE ~e.ok /\ Reactions = {}

\* C16 as stated: a reaction from a connection that is not in the room fails
\* with the authorization error and is delivered to nobody; a reaction from a
\* member goes to all members but the sender.
ReactionOnlyFromMembers ==
  \A e \in ReactionReplies :
    /\ ReactionFanOut(e)
    /\ ~e.ok => e.error = "Not in the stream room"

\* C16 amended: as stated, but the error of an unauthenticated connection is
\* "Not authenticated".
ReactionOnlyFromRoom ==
  \A e \in ReactionReplies :
    /\ ReactionFanOut(e)
    /\ ~e.ok => e.error = IF sockUser[e.from] = None THEN "Not authenticated"
                          ELSE "Not in the stream room"

\* a reaction reaches the other member of a room of two
ReactionToOther ==
  \E x \in Reactions : Cardinality(x.to) = 1 /\ Cardinality(inRoom[x.room]) = 2

\* C17: the step that handles the disconnect of a socket leaves it in no
\* room and in no subscriber set, and broadcasts, for every room it was
\* subscribed to, a viewer-count with the number of subscribers left.
DisconnectLeavesAll ==
  [][\A s \in Sockets :
       (sockState[s] = "open" /\ sockState'[s] = "closed")
         => /\ \A r \in Rooms : s \notin inRoom'[r]
            /\ \A r \in DOMAIN roomSubscribers' : s \notin roomSubscribers'[r]
            /\ \A r \in DOMAIN roomSubscribers :
                 s \in roomSubscribers[r]
                   => \E i \in 1..Len(emitted') :
                        /\ emitted'[i].type = "viewer-count"
                        /\ emitted'[i].room = r
                        /\ emitted'[i].count = MapSize(roomSubscribers', r)
                        /\ emitted'[i].count = Cardinality(roomSubscribers[r]) - 1
    ]_vars

\* a socket subscribed to two rooms has disconnected
DisconnectedFromTwo ==
  \E s \in Sockets :
    /\ sockState[s] = "closed"
    /\ Cardinality({e \in ViewerCounts : e.from = s}) = 2
    /\ \A r \in DOMAIN roomSubscribers : s \notin roomSubscribers[r]

\* the prePublish listener of connection c takes a step
PrePublishStep(c) == pub[c].pc \in {"find", "create", "save"} /\ pub'[c].pc # pub[c].pc

\* C18: a prePublish listener that resumes after its connection has ended
\* registers no session, stores nothing and admits nothing, and a socket
\* that has disconnected is in no subscriber set.
PendingResultDiscarded ==
  [][ /\ \A c \in Conns :
           (PrePublishStep(c) /\ pub[c].stage \in {"done", "closed"})
             => /\ streamSessions' = streamSessions
                /\ db' = db
                /\ pub'[c].verdict # "admitted"
      /\ \A s \in Sockets :
           sockState'[s] = "closed"
             => \A r \in DOMAIN roomSubscribers' : s \notin roomSubscribers'[r]
    ]_vars

\* the room events of the last step
RoomEvents == {e \in EmittedEvents : e.type \in {"viewer-count", "user-left"}}

WrongStateIsNoOp ==
  [][ /\ \A i \in 1..Len(emitted') :
           (emitted'[i].type = "reply" /\ emitted'[i].arg = "endStream") => emitted'[i].ok
      /\ \A c \in Conns :
           (PrePublishStep(c) /\ pub[c].key # None /\ Publishers(pub[c].key) \ {c} # {})
             => db'[pub[c].key] = db[pub[c].key]
    ]_vars

\* the promises that rejected unhandled in the last step
Faults == {e \in EmittedEvents : e.type = "fault"}

\* C21: no request ends as an unhandled fault of its listener, and every
\* response to a failing request carries an error message.
FailuresAreAnswered ==
  /\ Faults = {}
  /\ \A e \in EmittedEvents : (e.type = "reply" /\ ~e.ok) => e.error # None

\* C22: the server process is never closed or exited by an error raised
\* while an event is handled.
ProcessKeepsRunning == proc = "running"

\* a recording has failed in the step that emitted e: ffmpeg reported an
\* error, or startRecording returned false
RecordingFailure(e) ==
  \/ e.type = "recording-error"
  \/ e.type = "reply" /\ e.arg = "startRecording" /\ ~e.ok

RecordingRetried ==
  \A k \in RecKeys :
    ((\E e \in EmittedEvents : e.type = "recording-error" /\ e.room = RoomName(k))
       /\ ~MapHas(recordings, k) /\ Publishers(k) # {})
      ~> (MapHas(recordings, k) \/ Publishers(k) = {})

\* the stream of key k ends in this step: its stored status becomes "ended"
Ends(k) == db[k].status # "ended" /\ db'[k].status = "ended"

\* C25: the step in which a stream ends emits stream-ended to the members of
\* the stream's room and stream-ended-global to every connected socket.
EndIsAnnounced ==
  [][ \A k \in StreamKeys :
        Ends(k) =>
          /\ \E i \in 1..Len(emitted') :
               /\ emitted'[i].type = "stream-ended"
               /\ emitted'[i].room = RoomName(k)
               /\ ToRoom(inRoom', sockState', RoomName(k)) \subseteq emitted'[i].to
          /\ \E i \in 1..Len(emitted') :
               /\ emitted'[i].type = "stream-ended-global"
               /\ emitted'[i].to = ToAll(sockState')
    ]_vars

\* C26: stop() calls endStream for every key that has a session when the
\* shutdown begins; when such a call has finished, no session is registered
\* under its key.
StopEndsEveryStream ==
  [][ \A k \in StreamKeys :
        (stopPc = "ending" /\ endTask[k].pc # "idle" /\ endTask'[k].pc = "idle")
          => ~MapHas(streamSessions', k)
    ]_vars

\* the requests a socket can be refused
Refusable == {"authenticate", "join-stream", "chat-message", "send-reaction"}

\* the step answers the request req of socket s with a refusal
RefusedAs(s, req) ==
  \E i \in 1..Len(emitted') :
    /\ emitted'[i].type = "reply"
    /\ emitted'[i].arg = req
    /\ emitted'[i].from = s
    /\ ~emitted'[i].ok

Refused(s) == \E req \in Refusable : RefusedAs(s, req)

\* the step emits nothing but answers to the requesting socket
OnlyReplies == \A i \in 1..Len(emitted') : emitted'[i].type = "reply"

AllowedEdge(a, b) ==
  \/ a = b
  \/ a \in {None, "ended", "error"} /\ b = "starting"
  \/ a = "starting" /\ b = "live"
  \/ a = "live" /\ b = "ended"
  \/ a \in {"starting", "live"} /\ b = "error"

\* the step rejects a publish of key k
PublishRejected(k) ==
  \E i \in 1..Len(emitted') :
    /\ emitted'[i].type = "reply"
    /\ emitted'[i].arg = "prePublish"
    /\ emitted'[i].room = RoomName(k)
    /\ ~emitted'[i].ok

\* C28: the stored status of a stream changes only along the allowed edges,
\* and a step that rejects a publish of a stored stream leaves it in "error".
StatusFollowsEdges ==
  [][ \A k \in StreamKeys :
        /\ AllowedEdge(db[k].status, db'[k].status)
        /\ (PublishRejected(k) /\ db[k].exists) => db'[k].status = "error"
    ]_vars

\* C29: a publish that has been admitted and confirmed has had its
\* stream-started emitted exactly once.
StartedOncePerPublish ==
  \A c \in Conns :
    (pub[c].stage = "open" /\ pub[c].verdict = "admitted" /\ pub[c].posted)
      => pub[c].started = 1

\* C30: when the join of a socket that is subscribed to the room already
\* reaches the subscriber set, the set and the viewer count the join
\* broadcasts from it stay as they were.
RejoinIsNoOp ==
  [][ \A t \in Sockets :
        LET r == RoomName(joinTask[t].stream)
        IN ( /\ joinTask[t].pc = "joined"
             /\ joinTask'[t].pc = "info"
             /\ MapHas(roomSubscribers, r)
             /\ joinTask[t].sock \in roomSubscribers[r] )
             => /\ roomSubscribers' = roomSubscribers
                /\ JoinCount(roomSubscribers', r) = JoinCount(roomSubscribers, r)
    ]_vars

\* a socket that joined a stream and has not left it has joined it again,
\* next to another subscriber of the room
RejoinedBesideMember ==
  \E s \in Sockets :
    /\ joinTask[s].pc = "info"
    /\ joinTask[s].stream \in joinedOk[s]
    /\ MapHas(roomSubscribers, RoomName(joinTask[s].stream))
    /\ Cardinality(roomSubscribers[RoomName(joinTask[s].stream)]) = 2

\* socket s, which stays connected, is taken out of the subscribers of room
\* r in this step: its explicit leave
Leaves(s, r) ==
  /\ sockState[s] = "open"
  /\ sockState'[s] = "open"
  /\ MapHas(roomSubscribers, r)
  /\ s \in roomSubscribers[r]
  /\ ~(MapHas(roomSubscribers', r) /\ s \in roomSubscribers'[r])

\* C31: the explicit leave of a subscriber emits the recomputed viewer-count
\* of the room and a user-left for that socket's user.
LeaveAnnounced ==
  [][ \A s \in Sockets, r \in Rooms :
        Leaves(s, r) =>
          /\ \E i \in 1..Len(emitted') :
               /\ emitted'[i].type = "viewer-count"
               /\ emitted'[i].room = r
               /\ emitted'[i].count = MapSize(roomSubscribers', r)
          /\ \E i \in 1..Len(emitted') :
               /\ emitted'[i].type = "user-left"
               /\ emitted'[i].room = r
               /\ emitted'[i].user = sockUser[s]
    ]_vars

\* the authenticatePublish hook of connection c returns in this step
HookReturns(c) == pub[c].authz # None /\ pub'[c].authz = None

\* C32: authorization changes nothing: no step creates a stream record (only
\* authenticatePublisher could), and the step in which authenticatePublish
\* returns leaves the sessions and the active streams as they are.
AuthorizationHasNoEffect ==
  [][ /\ \A k \in StreamKeys : db'[k].exists = db[k].exists
      /\ \A c \in Conns :
           HookReturns(c) => /\ streamSessions' = streamSessions
                             /\ activeStreams' = activeStreams
    ]_vars

\* no listener or call of the RTMPServer is at an await
RtmpQuiet ==
  /\ \A c \in Conns : pub[c].pc \in {"idle", "done"} /\ pub[c].authz = None
  /\ \A t \in EndTasks : endTask[t].pc = "idle"
  /\ stopPc # "ending"

\* C33: with no handler in flight, a stream key has an active-stream entry
\* exactly when a session is registered under it, both name the same user,
\* and the session found under the connection id is the one found under the
\* key.
SessionViewsAgree ==
  RtmpQuiet =>
    \A k \in StreamKeys :
      /\ MapHas(activeStreams, k) = MapHas(streamSessions, k)
      /\ MapHas(streamSessions, k) =>
           /\ activeStreams[k].userId = streamSessions[k].userId
           /\ MapHas(streamSessions, streamSessions[k].id)
           /\ streamSessions[streamSessions[k].id] = streamSessions[k]

\* no socket handler is at an await
WsQuiet ==
  /\ \A s \in Sockets : joinTask[s].pc = "idle"
  /\ \A s \in Sockets : authPc[s] = None

\* C35: whenever no handler is in flight, every room that has subscribers
\* has had a viewer-count broadcast, and the latest viewer-count broadcast
\* of each room carries the room's current number of subscribers (0 for a
\* room that has been pruned).
ViewerCountInSync ==
  WsQuiet =>
    \A r \in Rooms :
      /\ MapHas(roomSubscribers, r) => lastViewerCount[r] # NoCount
      /\ lastViewerCount[r] # NoCount => lastViewerCount[r] = MapSize(roomSubscribers, r)

\* with no handler in flight, one room has been pruned after its last
\* subscriber went (latest count 0) and another has a subscriber (latest
\* count 1)
ViewerCountSettled ==
  /\ WsQuiet
  /\ \E r \in Rooms : ~MapHas(roomSubscribers, r) /\ lastViewerCount[r] = 0
  /\ \E r \in Rooms : MapSize(roomSubscribers, r) = 1 /\ lastViewerCount[r] = 1

\* C36: whenever no join handler is in flight (the leave-stream listener
\* has no await), a socket is among the subscribers of a room exactly when
\* it is in the transport room of that name.
RoomRecordsAgree ==
  (\A t \in Sockets : joinTask[t].pc = "idle") =>
    \A r \in Rooms, s \in Sockets :
      (MapHas(roomSubscribers, r) /\ s \in roomSubscribers[r]) <=> s \in inRoom[r]

\* the first prePublish listener rejects connection c in this step
Rejects(c) == pub[c].verdict # "rejected" /\ pub'[c].verdict = "rejected"

\* C37: the step in which the prePublish listener rejects a connection
\* leaves no session of that connection in streamSessions and leaves the
\* stream of its key not live.
RejectionLeavesNothing ==
  [][ \A c \in Conns :
        Rejects(c) =>
          /\ \A x \in DOMAIN streamSessions' : streamSessions'[x].id # c
          /\ ~db'[pub'[c].key].isLive
          /\ db'[pub'[c].key].status # "live"
    ]_vars

\* the ffmpeg process of recording id runs and nobody has asked it to stop
RunningRecordings == {id \in DOMAIN ffmpegProcs : ffmpegProcs[id].state = "running"}

\* C38: every recording that runs and has not been stopped is the entry of
\* its key in the recordings map, so stopRecording(streamKey) reaches it.
RecordingStaysTracked ==
  \A id \in RunningRecordings :
    /\ MapHas(recordings, ffmpegProcs[id].key)
    /\ recordings[ffmpegProcs[id].key].id = id

\* the users socket s is recorded under
RecordedUnder(s) == {u \in DOMAIN connectedUsers : s \in connectedUsers[u]}

\* a connected socket is recorded under no user but the one stored on it
OpenSocketUnderOneUser ==
  \A s \in Sockets : sockState[s] = "open" => RecordedUnder(s) \subseteq {sockUser[s]}

\* a socket that has disconnected is recorded under no user
ClosedSocketUnrecorded ==
  \A s \in Sockets : sockState[s] = "closed" => RecordedUnder(s) = {}

\* C39: no user of connectedUsers has an empty socket set, a connected
\* socket is recorded under no user but the one stored on it, and a socket
\* that has disconnected is recorded under no user.
ConnectedUsersConsistent ==
  /\ \A u \in DOMAIN connectedUsers : connectedUsers[u] # {}
  /\ OpenSocketUnderOneUser
  /\ ClosedSocketUnrecorded

\* the stored record of key k has both startedAt and endedAt
Timed(k) == db[k].exists /\ db[k].startedAt # NoTime /\ db[k].endedAt # NoTime

\* C40: a stored stream record that has both startedAt and endedAt has the
\* duration floor((endedAt - startedAt) / 1000), and that is not negative.
DurationMatchesTimes ==
  \A k \in StreamKeys :
    Timed(k) =>
      /\ db[k].duration = <<DurationSeconds(db[k].startedAt, db[k].endedAt)>>
      /\ DurationSeconds(db[k].startedAt, db[k].endedAt) >= 0

====
